---- MODULE Spec2Model ----
(***************************************************************************)
(* A model of fava-envelope's budget tree (modules/budget_tree.py) and of   *)
(* its envelope ledger builder (modules/beancount_envelope.py).             *)
(*                                                                          *)
(* Strings are TLA+ strings; key building and prefix tests use \o, Len and  *)
(* SubSeq on them exactly as the Python code concatenates and slices.       *)
(* Decimal amounts are integers counted in thousandths ("mills"), together  *)
(* with the number of decimals their string form shows (dp); dp = -1 is     *)
(* Python's None.                                                           *)
(***************************************************************************)
EXTENDS Integers, Sequences, FiniteSets, TLC

\* ------------------------------------------------------------------ bounds
\* Directives handed to parse_entries in one run of the tree.
MaxEntries == 2
\* Path segments of one allocate/task directive (0 = a malformed directive).
MaxPath == 2
\* change_actual calls in one run of the tree.
MaxActual == 1
\* dfs/summarize calls in one run of the tree.
MaxTraversals == 2
\* Nesting depth at which the interpreter gives up a recursion (RecursionError);
\* deeper than any acyclic chain the directives below can build.
RecursionLimit == 8

VARIABLES
    nodes,      \* BudgetTree objects by identity: <<node 1 = the tree, ...>>
    node_map,   \* node_map_ of the tree: key string -> node identity
    tasks_,     \* tasks_ of the tree
    max_date_,  \* max_date_ of the tree
    today,      \* datetime.date.today()
    status,     \* "ok", or the exception that ended the last operation
    last_op,    \* the operation that produced this state
    prev_op,    \* the operation before it
    start,      \* node the last dfs was called on
    events,     \* callbacks invoked by the last dfs: <<"pre"|"post", node>>
    entered,    \* nodes entered by the last traversal, in order (_dfs calls)
    last_entry, \* the directive the last parse_entries call was given
    prev_budget,\* budget the directive's deepest node held before that call
    n_parsed,   \* directives parsed so far
    n_actual,   \* change_actual calls so far
    n_trav,     \* dfs/summarize calls so far
    inp,        \* what a BeancountEnvelope is built from (ledger, options, argument)
    be,         \* the BeancountEnvelope object's fields
    pc,         \* where the envelope computation stands
    warnings    \* logging.warning calls so far

treeVars == <<nodes, node_map, tasks_, max_date_, today, status, last_op, prev_op,
              start, events, entered, last_entry, prev_budget, n_parsed, n_actual,
              n_trav>>

envVars == <<inp, be, pc, warnings>>

vars == <<treeVars, envVars>>

\* ------------------------------------------------------------ small helpers
Range(s) == {s[i] : i \in 1..Len(s)}

Abs(x) == IF x < 0 THEN -x ELSE x

\* F applied to the value of e, e being evaluated once.
LetIn(e, F(_)) == CHOOSE r \in {F(v) : v \in {e}} : TRUE

RECURSIVE SeqsUpTo(_, _)
\* All sequences over S of length 0..n.
SeqsUpTo(S, n) ==
    IF n = 0 THEN {<<>>}
    ELSE LET shorter == SeqsUpTo(S, n - 1)
         IN shorter \cup {Append(p, x) : p \in {q \in shorter : Len(q) = n - 1}, x \in S}

\* ---------------------------------------------------------------- decimals
\* Python's None for a budget/actual field.
NoneV == [m |-> 0, dp |-> -1]
IsNone(v) == v.dp = -1

\* str(float(x)): the shortest decimal form, never fewer than one decimal.
FloatStr(x) ==
    [m |-> x, dp |-> IF x % 100 = 0 THEN 1 ELSE IF x % 10 = 0 THEN 2 ELSE 3]

\* str(v) of a Decimal holding x mills with dp decimals (change_actual's value).
DecStr(x, dp) == [m |-> x, dp |-> dp]

\* Decimal(s) of a stored string: its numeric value in mills.
DecimalOf(v) == v.m

\* Quantize as a rounding that sends ties away from zero (ROUND_HALF_UP).
QuantizeHalfUp(x) ==
    LET a == Abs(x)
        c == IF a % 10 >= 5 THEN (a \div 10) + 1 ELSE a \div 10
    IN  IF x < 0 THEN -(c * 10) ELSE c * 10

\* Decimal.quantize(Decimal("0.00")) with the default context rounding,
\* ROUND_HALF_EVEN: mills rounded to whole cents (a multiple of 10 mills).
Quantize(x) ==
    LET a == Abs(x)
        q == a \div 10
        r == a % 10
        c == IF r > 5 \/ (r = 5 /\ q % 2 = 1) THEN q + 1 ELSE q
    IN  IF x < 0 THEN -(c * 10) ELSE c * 10

\* ------------------------------------------------------------------- dates
Digit == <<"0", "1", "2", "3", "4", "5", "6", "7", "8", "9">>
Str2(n) == Digit[((n \div 10) % 10) + 1] \o Digit[(n % 10) + 1]
Str4(n) == Str2(n \div 100) \o Str2(n % 100)

\* str(date): "YYYY-MM-DD".
DateStr(d) == Str4(d.y) \o "-" \o Str2(d.m) \o "-" \o Str2(d.d)

\* date comparison a < b.
DateLt(a, b) ==
    \/ a.y < b.y
    \/ a.y = b.y /\ a.m < b.m
    \/ a.y = b.y /\ a.m = b.m /\ a.d < b.d

DateMax(a, b) == IF DateLt(a, b) THEN b ELSE a

Date(y, m, d) == [y |-> y, m |-> m, d |-> d]

\* ------------------------------------------------------ budget_tree: nodes
\* The sentinel names summarize() passes over.
Sentinels == {"Budget Tree", "tasks", "monthly"}

\* BudgetTree(n, b, a): a fresh object with no children and an empty visit_.
\* (node_map_, tasks_ and max_date_ are only ever used on the tree itself and are
\* kept once, in the tree record.)
BudgetTree(n, b, a) ==
    [name |-> n, budget |-> b, actual |-> a, children |-> <<>>, visit |-> {}]

\* OrderedSet.add: insertion-ordered, no duplicates.
OrderedSetAdd(s, x) == IF x \in Range(s) THEN s ELSE Append(s, x)

\* add_children on node `parent` of tree record t.
add_children(t, parent, child) ==
    [t EXCEPT !.nodes[parent].children = OrderedSetAdd(@, child)]

\* f = task + month + n
NodeKey(task, month, n) == task \o month \o n

\* _create_or_get without its `if f not in self.node_map_` test: a new node is
\* made and registered on every call.
create_or_get_always(t, task, month, n) ==
    LET f == NodeKey(task, month, n)
        id == Len(t.nodes) + 1
    IN  [t |-> [t EXCEPT !.nodes = Append(@, BudgetTree(n, NoneV, NoneV)),
                         !.node_map = [k \in DOMAIN @ \cup {f} |->
                                          IF k = f THEN id ELSE @[k]]],
         node |-> id]

\* _create_or_get: the node registered under the key, created when absent.
\* Result: the tree record and the node's identity.
create_or_get(t, task, month, n) ==
    LET f == NodeKey(task, month, n)
    IN  IF f \notin DOMAIN t.node_map
        THEN LET id == Len(t.nodes) + 1
             IN  [t |-> [t EXCEPT !.nodes = Append(@, BudgetTree(n, NoneV, NoneV)),
                                  !.node_map = [k \in DOMAIN @ \cup {f} |->
                                                   IF k = f THEN id ELSE @[k]]],
                  node |-> id]
        ELSE [t |-> t, node |-> t.node_map[f]]

\* change_actual: set actual of the node registered under the key, if any.
change_actual(t, task, month, n, v) ==
    LET f == NodeKey(task, month, n)
    IN  IF f \in DOMAIN t.node_map
        THEN [t |-> [t EXCEPT !.nodes[t.node_map[f]].actual = v], found |-> TRUE]
        ELSE [t |-> t, found |-> FALSE]

\* str.startswith
StartsWith(s, p) == Len(s) >= Len(p) /\ SubSeq(s, 1, Len(p)) = p

\* month = str(e.date)[0:-3]
MonthOf(date) == SubSeq(DateStr(date), 1, Len(DateStr(date)) - 3)

RECURSIVE ParseLoop(_, _, _, _, _, _)
\* The loop of _parse_entry over vals[0 .. len-2] (segs): create or get the node
\* of each segment and link it under the previous node of the chain.
ParseLoop(t, last, first, month, segs, i) ==
    IF i > Len(segs) THEN [t |-> t, last |-> last]
    ELSE LetIn(create_or_get(t, first, month, segs[i]), LAMBDA r :
            LetIn(add_children(r.t, last, r.node), LAMBDA t1 :
                ParseLoop(t1, r.node, first, month, segs, i + 1)))

\* The period the directive's nodes are keyed with.
EntryPeriod(e) ==
    IF e.kind = "task" /\ ~StartsWith(e.path[1], "budget-") THEN "" ELSE MonthOf(e.date)

\* The chain without `vals.insert(0, month)`: the path alone for allocate too.
EntrySegsNoMonth(e) == e.path

\* The segments of the directive's chain below the scope root.
EntrySegs(e) == IF e.kind = "task" THEN e.path ELSE <<MonthOf(e.date)>> \o e.path

EntryScope(e) == IF e.kind = "task" THEN "tasks" ELSE "monthly"

\* _parse_entry: e.path are the values after the keyword without the trailing
\* amount, so len(vals) = Len(e.path) + 1.
parse_entry(t, e) ==
    IF Len(e.path) + 1 < 2
    THEN [t |-> t, status |-> "AssertionError", root |-> 0, deep |-> 0]
    ELSE LET first == EntryScope(e)
             fresh == e.kind = "task" /\ ~StartsWith(e.path[1], "budget-")
             t1 == [t EXCEPT !.max_date = DateMax(@, e.date),
                             !.tasks = IF fresh THEN @ \cup {e.path[1]} ELSE @]
         IN  LetIn(create_or_get(t1, first, first, first), LAMBDA r0 :
                LetIn(ParseLoop(r0.t, r0.node, first, EntryPeriod(e), EntrySegs(e), 1),
                      LAMBDA r :
                    [t |-> [r.t EXCEPT !.nodes[r.last].budget = FloatStr(e.amount)],
                     status |-> "ok", root |-> r0.node, deep |-> r.last]))

\* parse_entries on a one-directive list: only custom allocate/task directives
\* are parsed, and the scope root they return is linked under the tree.
parse_entries(t, e) ==
    IF e.kind \in {"allocate", "task"}
    THEN LetIn(parse_entry(t, e), LAMBDA r :
            IF r.status = "ok"
            THEN [r EXCEPT !.t = add_children(r.t, 1, r.root)]
            ELSE r)
    ELSE [t |-> t, status |-> "ok", root |-> 0, deep |-> 0]

\* -------------------------------------------------- budget_tree: traversal
RECURSIVE SumOver(_, _, _)
\* sum of node_sum[c][k] over the children c, in order.
SumOver(node_sum, cs, k) ==
    IF cs = <<>> THEN 0 ELSE node_sum[Head(cs)][k] + SumOver(node_sum, Tail(cs), k)

\* `if n.node_.budget: tot += Decimal(n.node_.budget)`: None adds nothing.
Val0(v) == IF IsNone(v) THEN 0 ELSE DecimalOf(v)

\* What summarize() writes back for a total of x mills: abs(quantize(x)),
\* shown with two decimals.
Total(x) == Abs(Quantize(x))

\* The post callback with an internal node's own budget/actual added to the sum
\* of its children.
summarize_post_own(d, n) ==
    LET nd == d.nodes[n]
    IN  IF nd.name \in Sentinels THEN d
        ELSE IF \E c \in Range(nd.children) : c \notin DOMAIN d.node_sum
        THEN [d EXCEPT !.status = "KeyError"]
        ELSE LET tb == Total(Val0(nd.budget) + SumOver(d.node_sum, nd.children, 1))
                 ta == Total(Val0(nd.actual) + SumOver(d.node_sum, nd.children, 2))
             IN  [d EXCEPT !.node_sum = [c \in DOMAIN @ \cup {n} |->
                                            IF c = n THEN <<tb, ta>> ELSE @[c]],
                           !.nodes[n].budget = DecStr(tb, 2),
                           !.nodes[n].actual = DecStr(ta, 2)]

\* The post callback of summarize() on node n. d is the traversal record
\* (nodes, node_sum, events, entered, status).
summarize_post(d, n) ==
    LET nd == d.nodes[n]
    IN  IF nd.name \in Sentinels THEN d
        ELSE IF Len(nd.children) = 0
        THEN LET tb == Total(Val0(nd.budget))
                 ta == Total(Val0(nd.actual))
             IN  [d EXCEPT !.node_sum = [c \in DOMAIN @ \cup {n} |->
                                            IF c = n THEN <<tb, ta>> ELSE @[c]],
                           !.nodes[n].budget = DecStr(tb, 2),
                           !.nodes[n].actual = DecStr(ta, 2)]
        ELSE IF \E c \in Range(nd.children) : c \notin DOMAIN d.node_sum
        THEN [d EXCEPT !.status = "KeyError"]
        ELSE LET tb == Total(SumOver(d.node_sum, nd.children, 1))
                 ta == Total(SumOver(d.node_sum, nd.children, 2))
             IN  [d EXCEPT !.node_sum = [c \in DOMAIN @ \cup {n} |->
                                            IF c = n THEN <<tb, ta>> ELSE @[c]],
                           !.nodes[n].budget = DecStr(tb, 2),
                           !.nodes[n].actual = DecStr(ta, 2)]

\* `if pre: pre(self)`: the logging callback records its invocation.
PreCall(d, n, pre) ==
    IF pre = "log" THEN [d EXCEPT !.events = Append(@, <<"pre", n>>)] ELSE d

\* _dfs without its `if post: post(self)`.
PostCallDropped(d, n, post) == d

\* `if post: post(self)`.
PostCall(d, n, post) ==
    IF post = "log" THEN [d EXCEPT !.events = Append(@, <<"post", n>>)]
    ELSE IF post = "summarize" THEN summarize_post(d, n)
    ELSE d

\* The visited guard of _dfs: `assert k not in self.visit_`.
VisitGuardFails(d, n) == n \in d.nodes[n].visit

\* dfs(): `self.visit_.clear()`, on the node the call is made on.
ClearVisit(d, n) == [d EXCEPT !.nodes[n].visit = {}]

RECURSIVE dfs(_, _, _, _, _)
RECURSIVE dfs_children(_, _, _, _, _, _, _)
\* dfs() followed by _dfs() on node n, at nesting depth `depth`. An exception
\* (status # "ok") unwinds the whole traversal.
dfs(d, n, post, pre, depth) ==
    IF d.status # "ok" THEN d
    ELSE IF depth > RecursionLimit THEN [d EXCEPT !.status = "RecursionError"]
    ELSE LetIn(ClearVisit(d, n), LAMBDA d1 :
            IF VisitGuardFails(d1, n) THEN [d1 EXCEPT !.status = "AssertionError"]
            ELSE LetIn(PreCall([d1 EXCEPT !.nodes[n].visit = @ \cup {n},
                                          !.entered = Append(@, n)], n, pre),
                       LAMBDA d3 :
                    LetIn(dfs_children(d3, d3.nodes[n].children, 1, post, pre, depth, n),
                          LAMBDA d4 :
                        IF d4.status # "ok" THEN d4 ELSE PostCall(d4, n, post))))

\* `for c in self.children_: c.dfs(post=post, pre=pre)`
dfs_children(d, cs, i, post, pre, depth, n) ==
    IF d.status # "ok" \/ i > Len(cs) THEN d
    ELSE LetIn(dfs(d, cs[i], post, pre, depth + 1), LAMBDA d1 :
            dfs_children(d1, cs, i + 1, post, pre, depth, n))

\* The traversal record a call starts with.
Traversal(ns) ==
    [nodes |-> ns, node_sum |-> [c \in {} |-> <<0, 0>>], events |-> <<>>,
     entered |-> <<>>, status |-> "ok"]

\* summarize(): self.dfs(post=post) on node n with an empty node_sum.
summarize(ns, n) == dfs(Traversal(ns), n, "summarize", "none", 1)

\* ------------------------------------------------------- inputs of the tree
\* Segment names: a plain one, a year bucket, one that is also a scope name, and
\* one that starts like a period.
Names == {"A", "budget-2022", "monthly", "2023-01A"}
EntryDates == {Date(2022, 12, 1), Date(2023, 1, 15)}
\* Amounts in mills: 10.0 and -0.125
Amounts == {10000, -125}
\* Values change_actual is given, in mills: -0.125
Actuals == {-125}
\* The day the tree is built on.
TreeToday == Date(2023, 1, 1)

Entry(kind, date, path, amount) ==
    [kind |-> kind, date |-> date, path |-> path, amount |-> amount]

NoEntry == Entry("none", Date(0, 0, 0), <<>>, 0)

\* The directives parse_entries may be given: allocate and task directives with
\* 0..MaxPath path segments, and one entry of another kind.
TreeEntries ==
    {Entry(k, dt, p, a) : k \in {"allocate", "task"}, dt \in EntryDates,
                          p \in SeqsUpTo(Names, MaxPath), a \in Amounts}
    \cup {Entry("other", Date(2022, 12, 1), <<>>, 0)}

\* No BeancountEnvelope exists while the tree is exercised on its own.
NoInput == [currency |-> "", operating_currency |-> <<>>, entries |-> <<>>]
NoEnvelope == [currency |-> ""]

\* ------------------------------------------------------- the tree's actions
\* The tree is used the way _fill_budget_tree uses it: the directives are parsed,
\* then actual values are set, then the tree is traversed.
Tree == [nodes |-> nodes, node_map |-> node_map, tasks |-> tasks_, max_date |-> max_date_]

\* The key the directive's deepest node is registered under.
DeepKey(e) == NodeKey(EntryScope(e), EntryPeriod(e), e.path[Len(e.path)])

Init ==
    /\ today = TreeToday
    /\ nodes = <<BudgetTree("Budget Tree", NoneV, NoneV)>>
    /\ node_map = [k \in {} |-> 0]
    /\ tasks_ = {}
    /\ max_date_ = today
    /\ status = "ok"
    /\ last_op = "init"
    /\ prev_op = "init"
    /\ start = 0
    /\ events = <<>>
    /\ entered = <<>>
    /\ last_entry = NoEntry
    /\ prev_budget = NoneV
    /\ n_parsed = 0
    /\ n_actual = 0
    /\ n_trav = 0
    /\ inp = NoInput
    /\ be = NoEnvelope
    /\ pc = "tree"
    /\ warnings = <<>>

\* tree.parse_entries([e])
ParseEntries ==
    /\ status = "ok"
    /\ n_parsed < MaxEntries
    /\ n_actual = 0
    /\ n_trav = 0
    /\ \E e \in TreeEntries :
         \E r \in {parse_entries(Tree, e)} :
             /\ nodes' = r.t.nodes
             /\ node_map' = r.t.node_map
             /\ tasks_' = r.t.tasks
             /\ max_date_' = r.t.max_date
             /\ status' = r.status
             /\ last_entry' = e
             /\ prev_budget' =
                  IF e.kind \in {"allocate", "task"} /\ e.path # <<>>
                     /\ DeepKey(e) \in DOMAIN node_map
                  THEN nodes[node_map[DeepKey(e)]].budget
                  ELSE NoneV
    /\ n_parsed' = n_parsed + 1
    /\ last_op' = "parse"
    /\ prev_op' = last_op
    /\ start' = 0
    /\ events' = <<>>
    /\ entered' = <<>>
    /\ UNCHANGED <<today, n_actual, n_trav>>
    /\ UNCHANGED envVars

\* tree.change_actual(task, month, n, v)
ChangeActual ==
    /\ status = "ok"
    /\ n_actual < MaxActual
    /\ n_trav = 0
    /\ \E task \in {"monthly", "tasks"}, dt \in EntryDates, n \in Names, v \in Actuals :
         \E r \in {change_actual(Tree, task, MonthOf(dt), n, DecStr(v, 3))} :
             nodes' = r.t.nodes
    /\ n_actual' = n_actual + 1
    /\ last_op' = "change_actual"
    /\ prev_op' = last_op
    /\ start' = 0
    /\ events' = <<>>
    /\ entered' = <<>>
    /\ last_entry' = NoEntry
    /\ prev_budget' = NoneV
    /\ UNCHANGED <<node_map, tasks_, max_date_, today, status, n_parsed, n_trav>>
    /\ UNCHANGED envVars

\* tree.dfs(post, pre) with callbacks that record their invocations (every caller
\* in the source starts the traversal at the tree itself: node 1).
Dfs ==
    /\ status = "ok"
    /\ n_trav < MaxTraversals
    /\ \E d \in {dfs(Traversal(nodes), 1, "log", "log", 1)} :
           /\ nodes' = d.nodes
           /\ status' = d.status
           /\ events' = d.events
           /\ entered' = d.entered
    /\ start' = 1
    /\ n_trav' = n_trav + 1
    /\ last_op' = "dfs"
    /\ prev_op' = last_op
    /\ last_entry' = NoEntry
    /\ prev_budget' = NoneV
    /\ UNCHANGED <<node_map, tasks_, max_date_, today, n_parsed, n_actual>>
    /\ UNCHANGED envVars

\* tree.summarize()
Summarize ==
    /\ status = "ok"
    /\ n_trav < MaxTraversals
    /\ \E d \in {summarize(nodes, 1)} :
           /\ nodes' = d.nodes
           /\ status' = d.status
           /\ events' = d.events
           /\ entered' = d.entered
    /\ start' = 1
    /\ n_trav' = n_trav + 1
    /\ last_op' = "summarize"
    /\ prev_op' = last_op
    /\ last_entry' = NoEntry
    /\ prev_budget' = NoneV
    /\ UNCHANGED <<node_map, tasks_, max_date_, today, n_parsed, n_actual>>
    /\ UNCHANGED envVars

Next == ParseEntries \/ ChangeActual \/ Dfs \/ Summarize

Spec == Init /\ [][Next]_vars

\* ------------------------------------------------- properties of the tree
\* A stored budget/actual read as a number, None counting as 0.
Val(v) == IF IsNone(v) THEN 0 ELSE DecimalOf(v)

NodeIds == 1..Len(nodes)

RECURSIVE Closure(_, _)
\* S closed under following children links.
Closure(ns, S) ==
    LET S2 == S \cup UNION {Range(ns[n].children) : n \in S}
    IN  IF S2 = S THEN S ELSE Closure(ns, S2)

\* The nodes reachable from n through children (n included).
Reachable(ns, n) == Closure(ns, {n})

\* The proper descendants of n.
Descendants(ns, n) == Closure(ns, Range(ns[n].children))

RECURSIVE SumPaths(_, _, _)
RECURSIVE NPaths(_, _, _)
\* The number of distinct children-paths from node a to node b (acyclic part).
NPaths(ns, a, b) == IF a = b THEN 1 ELSE SumPaths(ns, ns[a].children, b)

SumPaths(ns, cs, b) ==
    IF cs = <<>> THEN 0 ELSE NPaths(ns, Head(cs), b) + SumPaths(ns, Tail(cs), b)

\* Occurrences of x among s[i..j].
CountIn(s, i, j, x) == Cardinality({k \in i..j : s[k] = x})

Count(s, x) == CountIn(s, 1, Len(s), x)

\* The position of the only occurrence of x in s.
IndexOf(s, x) == CHOOSE k \in 1..Len(s) : s[k] = x

\* c (mills) is a whole number of cents nearest to a, a tie going to the even cent.
NearestCent(c, a) ==
    /\ c % 10 = 0
    /\ \/ Abs(c - a) < 5
       \/ Abs(c - a) = 5 /\ (c \div 10) % 2 = 0

\* C1: at most one node exists per registered key (every node but the tree is
\* registered under exactly one key, so _create_or_get on a registered key made no
\* new node), and after a directive is parsed the node its deepest path segment
\* resolves to holds that directive's amount as budget, whatever it held before.
C1_KeyUniqueness ==
    /\ Len(nodes) = 1 + Cardinality(DOMAIN node_map)
    /\ \A k \in DOMAIN node_map : node_map[k] \in 2..Len(nodes)
    /\ \A k1, k2 \in DOMAIN node_map : node_map[k1] = node_map[k2] => k1 = k2
    /\ (last_op = "parse" /\ status = "ok" /\ last_entry.kind \in {"allocate", "task"}) =>
          /\ DeepKey(last_entry) \in DOMAIN node_map
          /\ ~IsNone(nodes[node_map[DeepKey(last_entry)]].budget)
          /\ DecimalOf(nodes[node_map[DeepKey(last_entry)]].budget) = last_entry.amount

\* C1 witness: a second directive resolved to a key whose node already held a
\* different budget, and overwrote it.
C1_Witness ==
    /\ last_op = "parse"
    /\ status = "ok"
    /\ n_parsed = 2
    /\ ~IsNone(prev_budget)
    /\ DecimalOf(prev_budget) # last_entry.amount
    /\ DecimalOf(nodes[node_map[DeepKey(last_entry)]].budget) = last_entry.amount

\* The summarized value of an internal node is the sum of its children's.
InternalIsSumOfChildren(ns, n) ==
    /\ DecimalOf(ns[n].budget) =
         SumOver([c \in Range(ns[n].children) |->
                     <<DecimalOf(ns[c].budget), DecimalOf(ns[c].actual)>>],
                 ns[n].children, 1)
    /\ DecimalOf(ns[n].actual) =
         SumOver([c \in Range(ns[n].children) |->
                     <<DecimalOf(ns[c].budget), DecimalOf(ns[c].actual)>>],
                 ns[n].children, 2)

\* C2 as claimed: after summarize() every non-sentinel internal node holds the sum
\* of its children's summarized values and every non-sentinel leaf holds the
\* absolute value of the budget/actual it held before the call (unset = 0).
C2_Original ==
    [][(last_op' = "summarize" /\ status' = "ok") =>
          \A n \in NodeIds : nodes[n].name \notin Sentinels =>
              IF nodes[n].children = <<>>
              THEN /\ DecimalOf(nodes'[n].budget) = Abs(Val(nodes[n].budget))
                   /\ DecimalOf(nodes'[n].actual) = Abs(Val(nodes[n].actual))
              ELSE InternalIsSumOfChildren(nodes', n)]_vars

\* C2 amended: as C2, but a leaf holds the absolute value of its former
\* budget/actual quantized to two decimals (nearest cent, ties to even).
C2_Summarize ==
    [][(last_op' = "summarize" /\ status' = "ok") =>
          \A n \in NodeIds : nodes[n].name \notin Sentinels =>
              /\ nodes'[n].budget.dp = 2
              /\ nodes'[n].actual.dp = 2
              /\ IF nodes[n].children = <<>>
                 THEN /\ NearestCent(DecimalOf(nodes'[n].budget), Abs(Val(nodes[n].budget)))
                      /\ NearestCent(DecimalOf(nodes'[n].actual), Abs(Val(nodes[n].actual)))
                 ELSE InternalIsSumOfChildren(nodes', n)]_vars

\* C2 witness: summarize() returned on a tree with a non-sentinel internal node of
\* two children whose totals add a rounded leaf (0.125 -> 0.12) to another leaf.
C2_Witness ==
    /\ last_op = "summarize"
    /\ status = "ok"
    /\ \E n \in NodeIds :
         /\ nodes[n].name \notin Sentinels
         /\ Len(nodes[n].children) = 2
         /\ DecimalOf(nodes[n].budget) = 10120
         /\ DecimalOf(nodes[n].actual) = 120

\* C3: a summarize() directly after a summarize() changes no node's budget or
\* actual (and returns normally like the first).
C3_Idempotent ==
    [][(last_op = "summarize" /\ last_op' = "summarize") =>
          /\ status' = "ok"
          /\ \A n \in NodeIds : /\ nodes'[n].budget = nodes[n].budget
                                /\ nodes'[n].actual = nodes[n].actual]_vars

\* C3 witness: a second summarize() in a row returned, on a tree whose internal
\* node carries a non-zero total.
C3_Witness ==
    /\ last_op = "summarize"
    /\ prev_op = "summarize"
    /\ status = "ok"
    /\ \E n \in NodeIds :
         /\ nodes[n].name \notin Sentinels
         /\ nodes[n].children # <<>>
         /\ DecimalOf(nodes[n].budget) > 0

C5_Original ==
    (last_op \in {"dfs", "summarize"}) =>
        /\ status # "RecursionError"
        /\ (\E i, j \in 1..Len(entered) : i < j /\ entered[i] = entered[j]) =>
               status = "AssertionError"

\* C6 as claimed: in every state reached by parsing valid directives no node is
\* its own descendant.
C6_Original ==
    \A n \in NodeIds : n \notin Descendants(nodes, n)

\* ======================================================= beancount_envelope
\* f[k] := v, k added to the domain when new (dict / DataFrame .loc assignment).
Put(f, k, v) == [x \in DOMAIN f \cup {k} |-> IF x = k THEN v ELSE f[x]]

\* A DataFrame: its row labels, its column labels and the cells that hold a value
\* (a cell of the grid that is not in `cell` is NaN). Rows are kept as a set: no
\* modelled result depends on their order.
EmptyTable(cols) == [rows |-> {}, cols |-> cols, cell |-> [k \in {} |-> 0]]

\* re.compile(p).match(account) for the literal patterns of the model: a match
\* at the start of the string.
Match(p, account) == StartsWith(account, p)

\* A custom directive: type, date, keyword (values[0]), the string values after
\* it (path) and its numeric value (amount).
Custom(type, date, kind, path, amount) ==
    [type |-> type, date |-> date, kind |-> kind, path |-> path, amount |-> amount]

\* No price attached to a posting.
NoPrice == -1

Posting(account, number, currency, price) ==
    [account |-> account, number |-> number, currency |-> currency, price |-> price]

Txn(date, postings) ==
    [type |-> "", date |-> date, kind |-> "txn", path |-> <<>>, amount |-> 0,
     postings |-> postings]

\* isinstance(e, Custom)
IsCustom(e) == e.kind # "txn"

\* start_date before any `start date` directive was read.
NoStartDate == "None"

\* _find_currency without its `len(currency) == 3` test.
find_currency_unchecked(opt_currency) ==
    [currency |-> IF opt_currency # <<>> THEN opt_currency[1] ELSE "USD",
     warned |-> FALSE]

\* _find_currency: the first operating currency, or the default; anything whose
\* length is not 3 is replaced by the default with a warning.
find_currency(opt_currency) ==
    LET default_currency == "USD"
        currency == IF opt_currency # <<>> THEN opt_currency[1] ELSE default_currency
    IN  IF Len(currency) = 3
        THEN [currency |-> currency, warned |-> FALSE]
        ELSE [currency |-> default_currency, warned |-> TRUE]

\* One iteration of the loop of _find_envelop_settings on entry e; st holds the
\* locals of the function and the two fields of the object it assigns.
SettingsStep(st, e, etype) ==
    IF ~(IsCustom(e) /\ e.type = etype) THEN st
    ELSE IF e.kind = "start date" THEN [st EXCEPT !.start_date = e.path[1]]
    ELSE IF e.kind = "budget account"
         THEN [st EXCEPT !.budget_accounts = Append(@, e.path[1])]
    ELSE IF e.kind = "mapping"
         THEN [st EXCEPT !.mappings = Append(@, <<e.path[1], e.path[2]>>)]
    ELSE IF e.kind = "income account"
         THEN [st EXCEPT !.income_accounts = Append(@, e.path[1])]
    ELSE IF e.kind = "currency" THEN [st EXCEPT !.currency = e.path[1]]
    ELSE IF e.kind = "negative rollover"
         THEN [st EXCEPT !.negative_rollover = @ \/ e.path[1] = "allow"]
    ELSE IF e.kind = "self.months_ ahead" THEN [st EXCEPT !.months_ahead = e.amount]
    ELSE st

RECURSIVE SettingsLoop(_, _, _, _)
SettingsLoop(st, entries, i, etype) ==
    IF i > Len(entries) THEN st
    ELSE LetIn(SettingsStep(st, entries[i], etype), LAMBDA st1 :
            SettingsLoop(st1, entries, i + 1, etype))

\* _find_envelop_settings, with self.currency as the constructor left it.
find_envelop_settings(entries, etype, currency) ==
    SettingsLoop([start_date |-> NoStartDate, budget_accounts |-> <<>>,
                  mappings |-> <<>>, income_accounts |-> <<>>, months_ahead |-> 0,
                  currency |-> currency, negative_rollover |-> FALSE],
                 entries, 1, etype)

\* The months a `start date` value can name.
YearMonths == {Date(y, m, 1) : y \in 2023..2025, m \in 1..12}

\* f"{year}-{str(month).zfill(2)}"
YearMonthStr(d) == Str4(d.y) \o "-" \o Str2(d.m)

\* datetime.strptime(s, "%Y-%m").date()
ParseYearMonth(s) == CHOOSE d \in YearMonths : YearMonthStr(d) = s

\* date + relativedelta(months=+n) (no day of the model lies past the 28th, so
\* the day is never clamped).
AddMonths(d, n) ==
    LET k == (d.m - 1) + n
    IN  Date(d.y + (k \div 12), (k % 12) + 1, d.d)

\* __init__: the fields of the new object, or the exception that ends it.
construct(in, td) ==
    LetIn(IF in.currency # "" THEN "envelope" \o in.currency ELSE "envelope",
          LAMBDA etype :
    LetIn(find_envelop_settings(in.entries, etype, in.currency), LAMBDA st :
    LetIn(IF st.currency = "" THEN find_currency(in.operating_currency)
          ELSE [currency |-> st.currency, warned |-> FALSE],
          LAMBDA fc :
        [etype |-> etype,
         currency |-> fc.currency,
         warned |-> fc.warned,
         negative_rollover |-> st.negative_rollover,
         months_ahead |-> st.months_ahead,
         budget_accounts |-> st.budget_accounts,
         mappings |-> st.mappings,
         income_accounts |-> st.income_accounts,
         start_date |-> st.start_date,
         date_start |-> IF st.start_date = NoStartDate THEN Date(0, 0, 0)
                        ELSE ParseYearMonth(st.start_date),
         date_end |-> AddMonths(td, st.months_ahead),
         status |-> IF st.start_date = NoStartDate THEN "TypeError" ELSE "ok",
         \* attributes envelope_tables creates, empty until then
         months_ |-> <<>>, years_ |-> {},
         income_df |-> EmptyTable({}), envelope_df |-> EmptyTable({}),
         year_actual |-> EmptyTable({})])))

RECURSIVE MonthsFrom(_, _)
\* The loop of _get_months from date_current on.
MonthsFrom(date_current, date_end) ==
    IF ~DateLt(date_current, date_end) THEN <<>>
    ELSE LET month == (date_current.m - 1) + 1
             year == date_current.y + (month \div 12)
         IN  <<YearMonthStr(date_current)>>
             \o MonthsFrom(Date(year, (month % 12) + 1, 1), date_end)

get_months(date_start, date_end) == MonthsFrom(date_start, date_end)

\* _get_years: "budget-" + the year part of every month.
get_years(months) == {"budget-" \o SubSeq(months[i], 1, 4) : i \in 1..Len(months)}

\* ----------------------------------------------- the envelope and income tables

\* df.loc[row, col] = v, enlarging the frame by the row and the column if new.
SetCell(df, row, col, v) ==
    [rows |-> df.rows \cup {row}, cols |-> df.cols \cup {col},
     cell |-> Put(df.cell, <<row, col>>, v)]

IsNaN(df, row, col) == <<row, col>> \notin DOMAIN df.cell

\* df.fillna(Decimal(0.00))
FillNa(df) ==
    [df EXCEPT !.cell = [k \in df.rows \X df.cols |->
                            IF k \in DOMAIN df.cell THEN df.cell[k] ELSE 0]]

RECURSIVE SumCells(_, _, _)
\* sum of a column over the rows in R, NaN skipped.
SumCells(df, R, col) ==
    IF R = {} THEN 0
    ELSE LET r == CHOOSE x \in R : TRUE
         IN  (IF IsNaN(df, r, col) THEN 0 ELSE df.cell[<<r, col>>])
             + SumCells(df, R \ {r}, col)

\* entry.date < self.date_start or entry.date > self.date_end
OutOfRange(d, b) == DateLt(d, b.date_start) \/ DateLt(b.date_end, d)

RECURSIVE MapAccount(_, _, _)
\* The first mapping whose pattern matches renames the account.
MapAccount(account, mappings, i) ==
    IF i > Len(mappings) THEN account
    ELSE IF Match(mappings[i][1], account) THEN mappings[i][2]
    ELSE MapAccount(account, mappings, i + 1)

\* account_types.get_account_type: the account's first component.
AccountType(account) ==
    IF \E i \in 1..Len(account) : SubSeq(account, i, i) = ":"
    THEN LET i == CHOOSE i \in 1..Len(account) :
                     /\ SubSeq(account, i, i) = ":"
                     /\ \A j \in 1..(i - 1) : SubSeq(account, j, j) # ":"
         IN  SubSeq(account, 1, i - 1)
    ELSE account

MatchesAny(patterns, account) ==
    \E i \in 1..Len(patterns) : Match(patterns[i], account)

\* balances[account][month].add_position(posting), the inventory being kept as
\* the sum of its units (every counted posting is in the report currency).
AddPosition(bal, account, month, number) ==
    Put(bal, <<account, month>>,
        IF <<account, month>> \in DOMAIN bal THEN bal[<<account, month>>] + number
        ELSE number)

\* The posting loop body without the `else: continue` of the price test: a
\* posting in another currency without a price is added at its face value.
PostingStepUnpriced(bal, p, month, b) ==
    LET account == MapAccount(p.account, b.mappings, 1)
        number == IF p.currency # b.currency /\ p.price # NoPrice
                  THEN (p.price * p.number) \div 1000 ELSE p.number
    IN  IF AccountType(account) = "Income" \/ MatchesAny(b.income_accounts, account)
        THEN AddPosition(bal, "Income", month, number)
        ELSE IF MatchesAny(b.budget_accounts, p.account) THEN bal
        ELSE AddPosition(bal, account, month, number)

\* The body of the loop over entry.postings for posting p of a transaction of
\* `month`.
PostingStep(bal, p, month, b) ==
    LET account == MapAccount(p.account, b.mappings, 1)
        foreign == p.currency # b.currency
    IN  IF foreign /\ p.price = NoPrice THEN bal
        ELSE LET number == IF foreign THEN (p.price * p.number) \div 1000 ELSE p.number
             IN  IF AccountType(account) = "Income"
                    \/ MatchesAny(b.income_accounts, account)
                 THEN AddPosition(bal, "Income", month, number)
                 ELSE IF MatchesAny(b.budget_accounts, p.account) THEN bal
                 ELSE AddPosition(bal, account, month, number)

RECURSIVE PostingsLoop(_, _, _, _, _)
PostingsLoop(bal, ps, i, month, b) ==
    IF i > Len(ps) THEN bal
    ELSE LetIn(PostingStep(bal, ps[i], month, b), LAMBDA bal1 :
            PostingsLoop(bal1, ps, i + 1, month, b))

\* The body of the loop over the transactions; acc holds balances and all_months.
TxnStep(acc, e, b) ==
    IF IsCustom(e) \/ OutOfRange(e.date, b) THEN acc
    ELSE LET month == <<e.date.y, e.date.m>>
             months == acc.all_months \cup {month}
         IN  IF ~(\E i \in 1..Len(e.postings) :
                     MatchesAny(b.budget_accounts, e.postings[i].account))
             THEN [acc EXCEPT !.all_months = months]
             ELSE [balances |-> PostingsLoop(acc.balances, e.postings, 1, month, b),
                   all_months |-> months]

RECURSIVE TxnLoop(_, _, _, _)
TxnLoop(acc, entries, i, b) ==
    IF i > Len(entries) THEN acc
    ELSE LetIn(TxnStep(acc, entries[i], b), LAMBDA acc1 :
            TxnLoop(acc1, entries, i + 1, b))

RECURSIVE SortedMonths(_)
\* sorted(all_months), months being (year, month) pairs.
SortedMonths(S) ==
    IF S = {} THEN <<>>
    ELSE LET lo == CHOOSE x \in S :
                      \A y \in S : x[1] < y[1] \/ (x[1] = y[1] /\ x[2] <= y[2])
         IN  <<lo>> \o SortedMonths(S \ {lo})

\* `(account, year_ss) in self.year_actual`: membership of the pair among the
\* frame's column labels, which are the year strings; a pair is none of them.
InYearActual(ya, account, year_ss) == FALSE

\* The body of the pivot loop for one account and month.
PivotStep(b, bal, account, month) ==
    LET total == IF <<account, month>> \in DOMAIN bal THEN bal[<<account, month>>] ELSE 0
        temp == IF total # 0 THEN -Quantize(total) ELSE 0
        m == YearMonthStr(Date(month[1], month[2], 1))
        year_ss == "budget-" \o Str4(month[1])
    IN  IF account = "Income"
        THEN [b EXCEPT !.income_df = SetCell(@, "Avail Income", m, temp)]
        ELSE [b EXCEPT
                !.envelope_df =
                    SetCell(SetCell(SetCell(@, account, <<m, "budgeted">>, 0),
                                    account, <<m, "activity">>, temp),
                            account, <<m, "available">>, 0),
                !.year_actual =
                    IF InYearActual(@, account, year_ss)
                    THEN SetCell(@, account, year_ss, @.cell[<<account, year_ss>>] + temp)
                    ELSE SetCell(@, account, year_ss, temp)]

RECURSIVE PivotMonths(_, _, _, _, _)
PivotMonths(b, bal, account, ms, i) ==
    IF i > Len(ms) THEN b
    ELSE LetIn(PivotStep(b, bal, account, ms[i]), LAMBDA b1 :
            PivotMonths(b1, bal, account, ms, i + 1))

RECURSIVE PivotAccounts(_, _, _, _)
\* The pivot loop over the accounts (cells of different accounts are disjoint, so
\* the order of the accounts does not show in the result).
PivotAccounts(b, bal, A, ms) ==
    IF A = {} THEN b
    ELSE LetIn(CHOOSE x \in A : TRUE, LAMBDA a :
            LetIn(PivotMonths(b, bal, a, ms, 1), LAMBDA b1 :
                PivotAccounts(b1, bal, A \ {a}, ms)))

RECURSIVE SetRowAll(_, _, _, _)
\* df.loc[row, :] = v
SetRowAll(df, row, C, v) ==
    IF C = {} THEN df
    ELSE LetIn(CHOOSE x \in C : TRUE, LAMBDA c :
            LetIn(SetCell(df, row, c, v), LAMBDA df1 :
                SetRowAll(df1, row, C \ {c}, v)))

\* _calculate_budget_activity
calculate_budget_activity(b, entries) ==
    LetIn(TxnLoop([balances |-> [k \in {} |-> 0], all_months |-> {}], entries, 1, b),
          LAMBDA acc :
        LetIn([b EXCEPT !.income_df = SetRowAll(@, "Avail Income", @.cols, 0)],
              LAMBDA b1 :
            PivotAccounts(b1, acc.balances, {k[1] : k \in DOMAIN acc.balances},
                          SortedMonths(acc.all_months))))

\* The body of the loop of _calc_budget_budgeted on entry e.
BudgetedStep(b, e) ==
    IF IsCustom(e) /\ e.type = b.etype /\ ~OutOfRange(e.date, b) /\ e.kind = "allocate"
    THEN LET month == YearMonthStr(e.date)
             name == IF e.path = <<>> THEN e.kind ELSE e.path[Len(e.path)]
         IN  [b EXCEPT !.envelope_df = SetCell(@, name, <<month, "budgeted">>, e.amount)]
    ELSE b

RECURSIVE BudgetedLoop(_, _, _)
BudgetedLoop(b, entries, i) ==
    IF i > Len(entries) THEN b
    ELSE LetIn(BudgetedStep(b, entries[i]), LAMBDA b1 :
            BudgetedLoop(b1, entries, i + 1))

\* envelope_df.drop(months, axis=1): every column of the dropped months goes.
DropMonths(df, months) ==
    LET keep == {c \in df.cols : c[1] \notin months}
    IN  [rows |-> df.rows, cols |-> keep,
         cell |-> [k \in {x \in DOMAIN df.cell : x[2] \in keep} |-> df.cell[k]]]

\* _calc_budget_budgeted
calc_budget_budgeted(b, entries) ==
    LetIn(BudgetedLoop(b, entries, 1), LAMBDA b1 :
        LetIn({b1.months_[i] : i \in {j \in 1..Len(b1.months_) :
                  SumCells(b1.envelope_df, b1.envelope_df.rows,
                           <<b1.months_[j], "budgeted">>) = 0}},
              LAMBDA months_to_drop :
            [b1 EXCEPT !.envelope_df = FillNa(DropMonths(@, months_to_drop))]))

\* Writes made through a Series taken out of a frame (a row yielded by iterrows,
\* or df[col][row] op= v). pandas leaves open whether such a Series is a view of
\* the frame or a copy of its data; `view` says which one the library gives.
\* `month in row`: some column of the row carries that month.
MonthInRow(df, month) == \E c \in df.cols : c[1] = month

\* _set_available
set_available(b, view) ==
    IF ~view THEN b
    ELSE LET df == b.envelope_df
             ms == {m \in Range(b.months_) : MonthInRow(df, m)}
             written == {<<r, <<m, "available">>>> : r \in df.rows, m \in ms}
         IN  [b EXCEPT !.envelope_df.cell =
                [k \in DOMAIN df.cell \cup written |->
                    IF k \in written
                    THEN df.cell[<<k[1], <<k[2][1], "budgeted">>>>]
                         + df.cell[<<k[1], <<k[2][1], "activity">>>>]
                    ELSE df.cell[k]]]

\* _set_start_balance, starting_balance being what the ledger query adds up for
\* the budget accounts.
set_start_balance(b, starting_balance, view) ==
    IF b.months_ = <<>> THEN [b EXCEPT !.status = "IndexError"]
    ELSE IF ~view THEN b
    ELSE [b EXCEPT !.income_df.cell[<<"Avail Income", b.months_[1]>>] =
                        @ + starting_balance]

\* The inner loop of _set_overspent reading the month itself instead of the one
\* before it.
OverspentOfSameMonth(b, index) ==
    LET df == b.envelope_df
        cur == <<b.months_[index], "available">>
        neg == {r \in df.rows : cur \in df.cols /\ ~IsNaN(df, r, cur)
                                /\ df.cell[<<r, cur>>] < 0}
    IN  SumCells(df, neg, cur)

\* The inner loop of _set_overspent for the month at `index` (1-based).
OverspentOf(b, index) ==
    LET df == b.envelope_df
        cur == <<b.months_[index - 1], "available">>
        neg == {r \in df.rows : cur \in df.cols /\ ~IsNaN(df, r, cur)
                                /\ df.cell[<<r, cur>>] < 0}
    IN  SumCells(df, neg, cur)

RECURSIVE OverspentLoop(_, _)
OverspentLoop(b, index) ==
    IF index > Len(b.months_) THEN b
    ELSE LetIn([b EXCEPT !.income_df =
                    SetCell(@, "Overspent", b.months_[index],
                            IF index = 1 THEN 0 ELSE OverspentOf(b, index))],
               LAMBDA b1 : OverspentLoop(b1, index + 1))

\* _set_overspent
set_overspent(b) == OverspentLoop(b, 1)

RECURSIVE ExtraLoop(_, _)
ExtraLoop(b, index) ==
    IF index > Len(b.months_) THEN b
    ELSE LET month == b.months_[index]
             col == <<month, "budgeted">>
         IN  LetIn(IF col \in b.envelope_df.cols
                   THEN [b EXCEPT !.income_df =
                           SetCell(@, "Budgeted", month,
                                   -SumCells(b.envelope_df, b.envelope_df.rows, col))]
                   ELSE b,
                   LAMBDA b1 : ExtraLoop(b1, index + 1))

\* _set_extra
set_extra(b) == ExtraLoop(b, 1)

RECURSIVE ParseAll(_, _, _)
\* tree.parse_entries(self.entries): the first exception ends the loop.
ParseAll(t, entries, i) ==
    IF i > Len(entries) THEN [t |-> t, status |-> "ok"]
    ELSE LetIn(IF IsCustom(entries[i]) THEN parse_entries(t, entries[i])
               ELSE [t |-> t, status |-> "ok"],
               LAMBDA r :
            IF r.status # "ok" THEN [t |-> r.t, status |-> r.status]
            ELSE ParseAll(r.t, entries, i + 1))

\* str() of a Decimal cell: an amount that went through quantize shows two
\* decimals, the zeros Decimal(0.00) and Decimal(-0.0) show none.
CellStr(v) == DecStr(v, IF v = 0 THEN 0 ELSE 2)

RECURSIVE ChangeAll(_, _, _)
\* change_actual for every (task, month, name, cell) of the set K, whose keys are
\* pairwise different.
ChangeAll(t, K, df) ==
    IF K = {} THEN t
    ELSE LetIn(CHOOSE x \in K : TRUE, LAMBDA k :
            LetIn(change_actual(t, k[1], k[2], k[3], CellStr(df.cell[k[4]])).t,
                  LAMBDA t1 : ChangeAll(t1, K \ {k}, df)))

\* year.split("-")[1] + "-01"
YearFirstMonth(year) == SubSeq(year, 8, Len(year)) \o "-01"

\* The actual values of the monthly scope: (task, month, name, cell) for every
\* row and every month of months_ whose activity cell holds a value.
MonthlyActuals(b) ==
    {k \in {<<"monthly", m, r, <<r, <<m, "activity">>>>>> :
               r \in b.envelope_df.rows,
               m \in {x \in Range(b.months_) : <<x, "activity">> \in b.envelope_df.cols}} :
        k[4] \in DOMAIN b.envelope_df.cell}

\* The actual values of the task scope: one per row and year of year_actual
\* that holds a value, keyed with the first month of the year.
YearlyActuals(b) ==
    {k \in {<<"tasks", YearFirstMonth(y), r, <<r, y>>>> :
               r \in b.year_actual.rows, y \in b.years_} :
        k[4] \in DOMAIN b.year_actual.cell}

\* pretty_output(): two dfs calls whose pre callbacks read the nodes.
pretty_output(t, ns) ==
    LetIn(dfs(Traversal(ns), 1, "none", "log", 1), LAMBDA d1 :
        IF d1.status # "ok"
        THEN [t |-> [t EXCEPT !.nodes = d1.nodes], d |-> d1, status |-> d1.status]
        ELSE LetIn(dfs(Traversal(d1.nodes), 1, "none", "log", 1), LAMBDA d2 :
                [t |-> [t EXCEPT !.nodes = d2.nodes], d |-> d2, status |-> d2.status]))

\* _fill_budget_tree on tree record t: the tree afterwards, the traversal record
\* of the last dfs and the exception, if any.
fill_budget_tree(b, t, entries) ==
    LetIn(ParseAll(t, entries, 1), LAMBDA p :
        IF p.status # "ok"
        THEN [t |-> p.t, d |-> Traversal(p.t.nodes), status |-> p.status]
        ELSE LetIn(ChangeAll(ChangeAll(p.t, MonthlyActuals(b), b.envelope_df),
                             YearlyActuals(b), b.year_actual), LAMBDA t2 :
                LetIn(summarize(t2.nodes, 1), LAMBDA s :
                    IF s.status # "ok"
                    THEN [t |-> [t2 EXCEPT !.nodes = s.nodes], d |-> s, status |-> s.status]
                    ELSE pretty_output(t2, s.nodes))))

\* envelope_tables up to, and without, _fill_budget_tree.
envelope_frames(b, in) ==
    LetIn(get_months(b.date_start, b.date_end), LAMBDA months :
    LetIn([b EXCEPT !.months_ = months,
                    !.years_ = get_years(months),
                    !.income_df = EmptyTable(Range(months)),
                    !.year_actual = EmptyTable(get_years(months)),
                    !.envelope_df =
                        EmptyTable(Range(months) \X {"budgeted", "activity", "available"})],
          LAMBDA b0 :
    LetIn(calculate_budget_activity(b0, in.entries), LAMBDA b1 :
    LetIn(calc_budget_budgeted(b1, in.entries), LAMBDA b2 :
    LetIn(set_start_balance(b2, in.starting_balance, in.view), LAMBDA b3 :
        IF b3.status # "ok" THEN b3
        ELSE LetIn(set_available(b3, in.view), LAMBDA b4 :
             LetIn(set_overspent(b4), LAMBDA b5 : set_extra(b5))))))))

\* --------------------------------------------------- inputs of the envelope
\* Amounts are in mills, prices in thousandths.
EnvToday == {Date(2024, 2, 1), Date(2024, 2, 20)}

\* The settings every ledger of the model carries, typed for the envelope `type`.
Settings(type) ==
    << Custom(type, Date(2024, 1, 1), "start date", <<"2024-01">>, 0),
       Custom(type, Date(2024, 1, 1), "budget account", <<"Assets:Bank">>, 0),
       Custom(type, Date(2024, 1, 1), "mapping", <<"Expenses:Groceries", "Expenses:Food">>, 0),
       Custom(type, Date(2024, 1, 1), "income account", <<"Equity:Gift">>, 0),
       Custom("envelopeXXX", Date(2024, 1, 1), "currency", <<"XXX">>, 0),
       Custom(type, Date(2024, 1, 1), "task", <<"budget-2024", "Expenses:Food">>, 600000) >>

\* Optional directives.
CurrencyDirective(type) == Custom(type, Date(2024, 1, 1), "currency", <<"US">>, 0)
MonthsAhead(type, kind) == Custom(type, Date(2024, 1, 1), kind, <<>>, 1)
NegativeRollover(type) == Custom(type, Date(2024, 1, 1), "negative rollover", <<"allow">>, 0)

Allocations(type) ==
    << Custom(type, Date(2024, 1, 1), "allocate", <<"Expenses:Food">>, 50000),
       Custom(type, Date(2024, 1, 5), "allocate", <<"Living", "Expenses:Rent">>, 10000),
       Custom(type, Date(2024, 2, 1), "allocate", <<"Expenses:Food">>, 20000) >>

\* Transactions every ledger of the model carries: one before the start date,
\* salary paid into the budget account, one that touches no budget account.
FixedTxns ==
    << Txn(Date(2023, 12, 20), << Posting("Assets:Bank", -9000, "USD", NoPrice),
                                  Posting("Expenses:Food", 9000, "USD", NoPrice) >>),
       Txn(Date(2024, 1, 5),   << Posting("Income:Salary", -1000000, "USD", NoPrice),
                                  Posting("Assets:Bank", 1000000, "USD", NoPrice) >>),
       Txn(Date(2024, 1, 7),   << Posting("Liabilities:Card", -7000, "USD", NoPrice),
                                  Posting("Expenses:Food", 7000, "USD", NoPrice) >>) >>

\* Optional transactions: spending in January (part of it in a mapped account,
\* part in a priced and part in an unpriced foreign currency), and spending on
\* the first of February.
OptionalTxns ==
    << Txn(Date(2024, 1, 10), << Posting("Assets:Bank", -80000, "USD", NoPrice),
                                 Posting("Expenses:Food", 30000, "USD", NoPrice),
                                 Posting("Expenses:Groceries", 5005, "USD", NoPrice),
                                 Posting("Expenses:Rent", 20000, "CHF", 2000),
                                 Posting("Expenses:Rent", 4000, "JPY", NoPrice) >>),
       Txn(Date(2024, 2, 1),  << Posting("Assets:Bank", -80125, "USD", NoPrice),
                                 Posting("Expenses:Food", 80125, "USD", NoPrice) >>) >>

RECURSIVE Pick(_, _)
\* The members of seq whose index is in the set I, in order.
Pick(seq, I) ==
    IF seq = <<>> THEN <<>>
    ELSE (IF Len(seq) \in I THEN Pick(SubSeq(seq, 1, Len(seq) - 1), I) \o <<seq[Len(seq)]>>
          ELSE Pick(SubSeq(seq, 1, Len(seq) - 1), I))

\* What the ledger query of _set_start_balance adds up: 100.00
StartingBalance == 100000

\* The ledgers, options and constructor arguments of the model.
EnvInputs ==
    { [currency |-> cur,
       operating_currency |-> op,
       entries |-> Settings("envelope" \o cur)
                   \o (IF dir THEN <<CurrencyDirective("envelope" \o cur)>> ELSE <<>>)
                   \o (IF ahead = "" THEN <<>> ELSE <<MonthsAhead("envelope" \o cur, ahead)>>)
                   \o (IF roll THEN <<NegativeRollover("envelope" \o cur)>> ELSE <<>>)
                   \o Pick(Allocations("envelope" \o cur), al)
                   \o FixedTxns \o Pick(OptionalTxns, tx),
       starting_balance |-> StartingBalance,
       view |-> view] :
      cur \in {"", "US"}, op \in {<<>>, <<"US">>, <<"EUR">>}, dir \in BOOLEAN,
      ahead \in {"", "months ahead", "self.months_ ahead"}, roll \in BOOLEAN,
      al \in SUBSET (1..3), tx \in SUBSET (1..2), view \in BOOLEAN }

\* ---------------------------------------------------- the envelope's actions
EnvInit ==
    /\ today \in EnvToday
    /\ inp \in EnvInputs
    /\ be = NoEnvelope
    /\ pc = "start"
    /\ warnings = <<>>
    /\ nodes = <<BudgetTree("Budget Tree", NoneV, NoneV)>>
    /\ node_map = [k \in {} |-> 0]
    /\ tasks_ = {}
    /\ max_date_ = today
    /\ status = "ok"
    /\ last_op = "init"
    /\ prev_op = "init"
    /\ start = 0
    /\ events = <<>>
    /\ entered = <<>>
    /\ last_entry = NoEntry
    /\ prev_budget = NoneV
    /\ n_parsed = 0
    /\ n_actual = 0
    /\ n_trav = 0

\* BeancountEnvelope(entries, options_map, currency)
New ==
    /\ pc = "start"
    /\ \E b \in {construct(inp, today)} :
           /\ be' = b
           /\ status' = b.status
           /\ warnings' = IF b.warned THEN Append(warnings, "invalid operating currency")
                          ELSE warnings
    /\ pc' = "constructed"
    /\ last_op' = "new"
    /\ prev_op' = last_op
    /\ UNCHANGED <<nodes, node_map, tasks_, max_date_, today, start, events, entered,
                   last_entry, prev_budget, n_parsed, n_actual, n_trav, inp>>

\* envelope_tables()
EnvelopeTables ==
    /\ pc = "constructed"
    /\ status = "ok"
    /\ \E b \in {envelope_frames(be, inp)} :
       \E f \in {IF b.status = "ok" THEN fill_budget_tree(b, Tree, inp.entries)
                 ELSE [t |-> Tree, d |-> Traversal(nodes), status |-> b.status]} :
           IF b.status # "ok"
           THEN /\ be' = b
                /\ status' = b.status
                /\ UNCHANGED <<nodes, node_map, tasks_, max_date_, events, entered>>
           ELSE /\ be' = [b EXCEPT !.status = f.status]
                /\ status' = f.status
                /\ nodes' = f.t.nodes
                /\ node_map' = f.t.node_map
                /\ tasks_' = f.t.tasks
                /\ max_date_' = f.t.max_date
                /\ events' = f.d.events
                /\ entered' = f.d.entered
    /\ pc' = "done"
    /\ last_op' = "envelope_tables"
    /\ prev_op' = last_op
    /\ UNCHANGED <<today, start, last_entry, prev_budget, n_parsed, n_actual, n_trav,
                   inp, warnings>>

EnvNext == New \/ EnvelopeTables

SpecEnvelope == EnvInit /\ [][EnvNext]_vars

\* ------------------------------------------------ properties of the envelope
\* The envelope_tables call has returned its tables.
Returned == pc = "done" /\ status = "ok"

\* The directives of the ledger that the object reads as settings of `kind`.
Directives(kind) ==
    {i \in 1..Len(inp.entries) :
        /\ IsCustom(inp.entries[i])
        /\ inp.entries[i].type = (IF inp.currency # "" THEN "envelope" \o inp.currency
                                  ELSE "envelope")
        /\ inp.entries[i].kind = kind}

EnvCell(r, month, col) == be.envelope_df.cell[<<r, <<month, col>>>>]

\* C7 (as stated): in the returned envelope table, for every category row and
\* every month column kept in the table, available = budgeted + activity of the
\* same row and month.
C7_Original ==
    Returned =>
        \A r \in be.envelope_df.rows, c \in be.envelope_df.cols :
            c[2] = "available" =>
                EnvCell(r, c[1], "available")
                    = EnvCell(r, c[1], "budgeted") + EnvCell(r, c[1], "activity")

RECURSIVE NegativeSum(_, _)
\* The sum of the negative values among the `available` cells of month over the
\* rows R.
NegativeSum(R, month) ==
    IF R = {} THEN 0
    ELSE LET r == CHOOSE x \in R : TRUE
             k == <<r, <<month, "available">>>>
         IN  (IF k \in DOMAIN be.envelope_df.cell /\ be.envelope_df.cell[k] < 0
              THEN be.envelope_df.cell[k] ELSE 0)
             + NegativeSum(R \ {r}, month)

\* C8: in the returned income table, Overspent of the first report month is 0,
\* and Overspent of every later month i is the sum, over all category rows, of
\* the negative available values of month i-1.
C8_Overspent ==
    Returned =>
        \A i \in 1..Len(be.months_) :
            be.income_df.cell[<<"Overspent", be.months_[i]>>]
                = IF i = 1 THEN 0
                  ELSE NegativeSum(be.envelope_df.rows, be.months_[i - 1])

\* A returned report of two months in which a row overspent in the first month
\* while another row did not, which shows as Overspent of the second month.
C8_Witness ==
    /\ Returned
    /\ Len(be.months_) = 2
    /\ \E r1, r2 \in be.envelope_df.rows :
          /\ <<r1, <<be.months_[1], "available">>>> \in DOMAIN be.envelope_df.cell
          /\ <<r2, <<be.months_[1], "available">>>> \in DOMAIN be.envelope_df.cell
          /\ EnvCell(r1, be.months_[1], "available") < 0
          /\ EnvCell(r2, be.months_[1], "available") > 0
    /\ be.income_df.cell[<<"Overspent", be.months_[2]>>] < 0
    /\ be.income_df.cell[<<"Overspent", be.months_[1]>>] = 0

\* C9 (as stated): a `months ahead` directive of value N makes date_end today
\* plus N months, and the month list runs from the start month through the
\* months up to that date_end.
C9_Original ==
    (pc # "start" /\ Directives("months ahead") # {}) =>
        LET N == inp.entries[CHOOSE i \in Directives("months ahead") : TRUE].amount
        IN  /\ be.date_end = AddMonths(today, N)
            /\ (Returned =>
                  be.months_ = get_months(be.date_start, AddMonths(today, N)))

\* C10 (as stated): a currency code whose length is not 3 never becomes the
\* resolved report currency.
C10_Original ==
    pc # "start" => Len(be.currency) = 3

\* C10 (amended): when neither the constructor argument nor a `currency`
\* directive names the currency, an operating currency whose length is not 3 is
\* replaced by "USD" with a warning and the computation goes on; a currency
\* named by the argument or the directive is used as it is, without a warning.
C10_Currency ==
    pc # "start" =>
        IF Directives("currency") # {}
        THEN be.currency = inp.entries[CHOOSE i \in Directives("currency") : TRUE].path[1]
             /\ warnings = <<>>
        ELSE IF inp.currency # ""
        THEN be.currency = inp.currency /\ warnings = <<>>
        ELSE IF inp.operating_currency # <<>> /\ Len(inp.operating_currency[1]) # 3
        THEN be.currency = "USD" /\ warnings # <<>> /\ status = "ok"
        ELSE /\ be.currency = (IF inp.operating_currency # <<>>
                               THEN inp.operating_currency[1] ELSE "USD")
             /\ warnings = <<>>

\* The operating currency "US" was replaced by "USD" with a warning, and the
\* tables were computed.
C10_Witness ==
    /\ Returned
    /\ inp.currency = ""
    /\ Directives("currency") = {}
    /\ inp.operating_currency = <<"US">>
    /\ be.currency = "USD"
    /\ warnings # <<>>

\* The frames as _calculate_budget_activity leaves them (before months without
\* a budget are dropped), recomputed for the object's settings and months.
AfterActivity ==
    calculate_budget_activity(
        [be EXCEPT !.income_df = EmptyTable(Range(be.months_)),
                   !.year_actual = EmptyTable(be.years_),
                   !.envelope_df =
                       EmptyTable(Range(be.months_) \X {"budgeted", "activity", "available"})],
        inp.entries)

RECURSIVE ActivitySum(_, _, _)
\* The sum of the activity cells of account over the columns C of frame df.
ActivitySum(df, account, C) ==
    IF C = {} THEN 0
    ELSE LET c == CHOOSE x \in C : TRUE
         IN  (IF <<account, c>> \in DOMAIN df.cell THEN df.cell[<<account, c>>] ELSE 0)
             + ActivitySum(df, account, C \ {c})

\* The activity columns of frame df whose month lies in the year of the bucket
\* "budget-YYYY".
YearActivityCols(df, year) ==
    {c \in df.cols : c[2] = "activity" /\ SubSeq(c[1], 1, 4) = SubSeq(year, 8, Len(year))}

\* C11 (as stated): for every category account and every year of the report
\* window, the year-bucket total held for (account, budget-YYYY) after activity
\* accumulation is the sum of the account's monthly activity values over the
\* months of that year, and the task-scope node of the account (keyed with the
\* first month of the year) holds that total as its actual after the tree was
\* synchronized.
C11_Original ==
    Returned =>
        \A account \in be.year_actual.rows, year \in be.years_ :
            LET total == ActivitySum(AfterActivity.envelope_df, account,
                                     YearActivityCols(AfterActivity.envelope_df, year))
                f == NodeKey("tasks", YearFirstMonth(year), account)
            IN  /\ <<account, year>> \in DOMAIN be.year_actual.cell
                /\ be.year_actual.cell[<<account, year>>] = total
                /\ f \in DOMAIN node_map => Val(nodes[node_map[f]].actual) = Total(total)

\* The names of the chain the directive e describes, below the scope root.
ChainNames(e) == IF e.kind = "allocate" THEN <<MonthOf(e.date)>> \o e.path ELSE e.path

\* The node the key (scope of e, period of e, name) addresses in node map nm.
ChainNode(nm, e, name) == nm[NodeKey(EntryScope(e), EntryPeriod(e), name)]

\* The chain of e is in place in the tree (ns, nm): the scope root is registered
\* and linked under the tree, every name of the chain has its node, the first
\* is a child of the root and each next one a child of the one before it.
ChainBuilt(ns, nm, e) ==
    LET scope == EntryScope(e)
        names == ChainNames(e)
        rootKey == NodeKey(scope, scope, scope)
    IN  /\ rootKey \in DOMAIN nm
        /\ nm[rootKey] \in Range(ns[1].children)
        /\ \A i \in 1..Len(names) :
              /\ NodeKey(scope, EntryPeriod(e), names[i]) \in DOMAIN nm
              /\ ChainNode(nm, e, names[i])
                    \in Range(ns[IF i = 1 THEN nm[rootKey]
                                 ELSE ChainNode(nm, e, names[i - 1])].children)

\* C12: parsing one valid allocate or task directive builds its chain under the
\* scope's root ("monthly" for allocate, "tasks" for task): [entry month] then
\* the path segments for allocate, the path segments alone for task, each
\* consecutive pair linked parent to child; the trailing amount becomes the
\* budget of the deepest node of the chain, and no other node's budget changes.
C12_ParseChain ==
    [][(last_op' = "parse" /\ status' = "ok" /\ last_entry'.kind \in {"allocate", "task"}) =>
          LET e == last_entry'
              names == ChainNames(e)
              deep == ChainNode(node_map', e, names[Len(names)])
          IN  /\ ChainBuilt(nodes', node_map', e)
              /\ nodes'[deep].budget = FloatStr(e.amount)
              /\ \A n \in 1..Len(nodes') :
                    n # deep =>
                        nodes'[n].budget = (IF n <= Len(nodes) THEN nodes[n].budget
                                            ELSE NoneV)]_vars

\* A second directive was parsed: an allocate directive with two path segments,
\* whose chain of month and two distinct segments stands under "monthly" with
\* the amount on its deepest node, while an earlier node keeps another budget.
C12_Witness ==
    /\ last_op = "parse"
    /\ status = "ok"
    /\ n_parsed = 2
    /\ last_entry.kind = "allocate"
    /\ Len(last_entry.path) = 2
    /\ last_entry.path[1] # last_entry.path[2]
    /\ ChainBuilt(nodes, node_map, last_entry)
    /\ nodes[ChainNode(node_map, last_entry, last_entry.path[2])].budget
          = FloatStr(last_entry.amount)
    /\ \E n \in 1..Len(nodes) :
          /\ ~IsNone(nodes[n].budget)
          /\ nodes[n].budget # FloatStr(last_entry.amount)

\* The account a posting's account is reported under: the target of the first
\* mapping whose pattern matches it, or the account itself.
MappedTo(account) ==
    IF \E i \in 1..Len(be.mappings) : Match(be.mappings[i][1], account)
    THEN be.mappings[CHOOSE i \in 1..Len(be.mappings) :
                        /\ Match(be.mappings[i][1], account)
                        /\ \A j \in 1..(i - 1) : ~Match(be.mappings[j][1], account)][2]
    ELSE account

\* Posting j of entry i is counted for (account, month): the entry is a
\* transaction dated inside the window, in that month, with at least one posting
\* on a budget account; the posting maps to the account, is not itself on a
\* budget account, and is in the report currency or carries a price.
Counted(i, j, account, month) ==
    LET e == inp.entries[i]
    IN  /\ ~IsCustom(e)
        /\ ~DateLt(e.date, be.date_start)
        /\ ~DateLt(be.date_end, e.date)
        /\ YearMonthStr(e.date) = month
        /\ j \in 1..Len(e.postings)
        /\ \E k \in 1..Len(e.postings) : MatchesAny(be.budget_accounts, e.postings[k].account)
        /\ MappedTo(e.postings[j].account) = account
        /\ ~MatchesAny(be.budget_accounts, e.postings[j].account)
        /\ (e.postings[j].currency = be.currency \/ e.postings[j].price # NoPrice)

\* What a counted posting counts for: its amount, or price times amount when it
\* is in another currency.
CountedValue(i, j) ==
    LET p == inp.entries[i].postings[j]
    IN  IF p.currency = be.currency THEN p.number ELSE (p.price * p.number) \div 1000

RECURSIVE SumCounted(_)
SumCounted(P) ==
    IF P = {} THEN 0
    ELSE LET x == CHOOSE y \in P : TRUE
         IN  CountedValue(x[1], x[2]) + SumCounted(P \ {x})

\* The sum of the postings counted for (account, month).
CountedSum(account, month) ==
    SumCounted({x \in UNION {{<<i, j>> : j \in 1..Len(inp.entries[i].postings)} :
                                 i \in {n \in 1..Len(inp.entries) : ~IsCustom(inp.entries[n])}} :
                   Counted(x[1], x[2], account, month)})

\* The non-income rows and the activity cells the report holds for them, in the
\* frame as accumulated and in the frame as returned.
ActivityCells ==
    {k \in DOMAIN AfterActivity.envelope_df.cell \cup DOMAIN be.envelope_df.cell :
        /\ k[2][2] = "activity"
        /\ AccountType(k[1]) # "Income"
        /\ ~MatchesAny(be.income_accounts, k[1])}

ActivityCell(k) ==
    IF k \in DOMAIN be.envelope_df.cell THEN be.envelope_df.cell[k]
    ELSE AfterActivity.envelope_df.cell[k]

\* C13 (as stated): for every non-income account and month, the activity cell
\* equals the negation of the sum of the counted postings mapped to that account
\* in that month.
C13_Original ==
    Returned =>
        \A k \in ActivityCells : ActivityCell(k) = -CountedSum(k[1], k[2][1])

\* C13 (amended): for every non-income account and month, the activity cell
\* equals the negation of the sum of the counted postings mapped to that account
\* in that month, quantized to two decimals (ties to the even cent); a posting
\* in another currency without a price counts for nothing and the computation
\* still returns.
C13_Activity ==
    Returned =>
        /\ \A k \in ActivityCells :
              /\ ActivityCell(k) = -Quantize(CountedSum(k[1], k[2][1]))
              /\ k \in DOMAIN be.envelope_df.cell /\ k \in DOMAIN AfterActivity.envelope_df.cell
                    => be.envelope_df.cell[k] = AfterActivity.envelope_df.cell[k]

\* A returned report in USD over a January transaction with postings on
\* Expenses:Food (30.00 and, through a mapping, 5.005), a priced CHF posting
\* (20.00 at 2) and an unpriced JPY posting on Expenses:Rent: Food shows -35.00
\* and Rent -40.00 for January.
C13_Witness ==
    /\ Returned
    /\ be.currency = "USD"
    /\ \E i \in 1..Len(inp.entries) :
          /\ ~IsCustom(inp.entries[i])
          /\ \E j \in 1..Len(inp.entries[i].postings) :
                /\ inp.entries[i].postings[j].currency = "JPY"
                /\ inp.entries[i].postings[j].price = NoPrice
                /\ ~Counted(i, j, "Expenses:Rent", "2024-01")
    /\ CountedSum("Expenses:Food", "2024-01") = 35005
    /\ <<"Expenses:Food", <<"2024-01", "activity">>>> \in DOMAIN be.envelope_df.cell
    /\ EnvCell("Expenses:Food", "2024-01", "activity") = -35000
    /\ <<"Expenses:Rent", <<"2024-01", "activity">>>> \in DOMAIN be.envelope_df.cell
    /\ EnvCell("Expenses:Rent", "2024-01", "activity") = -40000

\* The (scope, period, name) triples directives and change_actual calls address:
\* the two scope roots, and every name in either scope under no period or under
\* the month of a directive.
Triples ==
    {<<sc, sc, sc>> : sc \in {"monthly", "tasks"}}
    \cup ({"monthly", "tasks"} \X ({""} \cup {MonthOf(dt) : dt \in EntryDates}) \X Names)

\* C14 (as stated): two different (scope, period, name) triples never address
\* the same node: whenever two triples resolve to one registered node, their
\* scopes, periods and names are equal.
C14_Original ==
    \A t1, t2 \in Triples :
        (/\ NodeKey(t1[1], t1[2], t1[3]) \in DOMAIN node_map
         /\ NodeKey(t2[1], t2[2], t2[3]) \in DOMAIN node_map
         /\ node_map[NodeKey(t1[1], t1[2], t1[3])] = node_map[NodeKey(t2[1], t2[2], t2[3])])
            => t1 = t2
====
